---- MODULE Spec2Model ----
(***************************************************************************)
(* ccm: cyclomatic complexity measures computed from the control-flow      *)
(* graph of a CPython bytecode routine.                                    *)
(*                                                                         *)
(* The model follows the pipeline of the sources:                          *)
(*   decoder   src/src/ccm/xdis.py   (_unpack_opargs, findlabels,          *)
(*             findlinestarts, _get_instructions_bytes, XBytecode)         *)
(*   graph     src/ccm/graphs.py     (XBytecodeGraph: pairwise-product     *)
(*             get_edges, get_subgraph, __init__)                          *)
(*             src/src/ccm/graphs.py (XBytecodeGraph: iterative get_edges, *)
(*             get_subgraph, __init__), names ending in _src               *)
(*   metrics   src/ccm/complexity.py (the six measures)                    *)
(*                                                                         *)
(* A routine is a code object: its byte stream co_code (two bytes per      *)
(* instruction), its name table co_names and its line table co_lnotab.     *)
(* Python's None is modelled by the integer None (no offset, argument or   *)
(* line number is negative).  A networkx DiGraph is a record of a node set *)
(* and an edge set (add_edges_from adds the endpoints of every edge and    *)
(* keeps one copy of a repeated edge).                                     *)
(***************************************************************************)
EXTENDS Integers, Sequences, FiniteSets, TLC

VARIABLES
    origin,   \* the kind of object handed to the analysis
    code,     \* co_code of the routine under analysis: a sequence of bytes
    first_line, \* first_line of the XBytecode built last by itself (None before)
    call,     \* the operation performed last ("none" before any)
    xb,       \* the instruction sequence of the XBytecode built last
    G,        \* the XBytecodeGraph built last (NoGraph before any)
    H,        \* the graph returned by the last get_subgraph (NoGraph if none)
    sel,      \* the selectors handed to the last get_subgraph
    by_line,  \* the map returned by the last get_bytecode_instructions_by_source_line
    result    \* what the last operation returned or raised

vars == <<origin, code, first_line, call, xb, G, H, sel, by_line, result>>

---------------------------------------------------------------------------
\* Bounds of the model

\* longest routine, in instructions, drawn over the core alphabet
MaxInstrs == 4
\* longest run of filler instructions put before a call pattern
MaxPrefix == 1
\* longest routine, in instructions, whose byte stream is cut one byte short
MaxTruncated == 2

---------------------------------------------------------------------------
\* Python values

None == -1

Max(a, b) == IF a >= b THEN a ELSE b

RECURSIVE BitOr(_, _)
\* a | b on non-negative integers
BitOr(a, b) ==
    IF a = 0 THEN b
    ELSE IF b = 0 THEN a
    ELSE Max(a % 2, b % 2) + 2 * BitOr(a \div 2, b \div 2)

---------------------------------------------------------------------------
\* The opcode table (from opcode import *), CPython 3.8 numbering, restricted
\* to the operations the model's routines use

POP_TOP == 1
RETURN_VALUE == 83
HAVE_ARGUMENT == 90
LOAD_CONST == 100
COMPARE_OP == 107
JUMP_FORWARD == 110
JUMP_ABSOLUTE == 113
POP_JUMP_IF_FALSE == 114
LOAD_GLOBAL == 116
RAISE_VARARGS == 130
CALL_FUNCTION == 131
EXTENDED_ARG == 144
LOAD_METHOD == 160
CALL_METHOD == 161

hasjrel == {JUMP_FORWARD}
hasjabs == {JUMP_ABSOLUTE, POP_JUMP_IF_FALSE}
hascompare == {COMPARE_OP}
hasconst == {LOAD_CONST}
hasname == {LOAD_GLOBAL, LOAD_METHOD}

\* opcodes whose name starts with CALL
CALL_OPS == {CALL_FUNCTION, CALL_METHOD}
DECISION_OPS == hascompare
BRANCH_OPS == hasjabs \cup hasjrel
EXIT_OPS == {RETURN_VALUE, RAISE_VARARGS}

---------------------------------------------------------------------------
\* The code object handed to the analysis

\* co_names of the routine
co_names == <<"sys", "exit", "os">>

\* co_consts of the routine: None and six constants
co_consts == <<None, "k1", "k2", "k3", "k4", "k5", "k6">>

\* opcode.cmp_op
cmp_op == <<"<", "<=", "==", "!=", ">", ">=", "in", "not in", "is", "is not",
            "exception match", "BAD">>

co_firstlineno == 1

\* the lines of the routine's source text that are empty
BlankLines == {3}

\* the source lines of the first four-byte units of the routine: line 3 is
\* empty, and the fourth unit belongs to line 2 again (a statement that
\* spans lines 2 to 4)
UnitLines == <<1, 2, 4, 2>>

\* the source line of the i-th four-byte unit: later units are on later
\* lines, one each
unit_line(i) == IF i <= Len(UnitLines) THEN UnitLines[i] ELSE i

\* co_lnotab of the routine: a new source line starts every four bytes
\* (byte increment 4); the line increment is a signed byte
RECURSIVE lnotab_from(_, _)
lnotab_from(nbytes, i) ==
    IF nbytes <= 4 THEN <<>>
    ELSE <<4, (unit_line(i + 1) - unit_line(i)) % 256>>
             \o lnotab_from(nbytes - 4, i + 1)

lnotab_of(nbytes) == lnotab_from(nbytes, 1)

co_lnotab(co_code) == lnotab_of(Len(co_code))

\* the text of a source line is identified with its number in the file; an
\* empty line is the empty text
EmptyText == 0

RECURSIVE last_code_line(_, _)
\* the highest line the line table reaches from lineno
last_code_line(lnotab, lineno) ==
    IF lnotab = <<>> THEN lineno
    ELSE Max(lineno,
             last_code_line(Tail(Tail(lnotab)),
                            lineno + (IF lnotab[2] >= 128 THEN lnotab[2] - 256
                                      ELSE lnotab[2])))

\* inspect.getsource(code).split('\n'): the lines of the routine from its
\* first line to its last line of code
getsource_lines(co_code) ==
    [i \in 1..(last_code_line(co_lnotab(co_code), co_firstlineno) - co_firstlineno + 1)
        |-> IF co_firstlineno + i - 1 \in BlankLines THEN EmptyText
            ELSE co_firstlineno + i - 1]

---------------------------------------------------------------------------
\* Decoder: src/src/ccm/xdis.py

RECURSIVE unpack_from(_, _, _)
\* the generator body of _unpack_opargs from Python index i on, with the
\* pending extended_arg
unpack_from(co_code, i, extended_arg) ==
    IF i >= Len(co_code) THEN <<>>
    ELSE IF co_code[i + 1] >= HAVE_ARGUMENT /\ i + 2 > Len(co_code)
    THEN <<>>    \* code[i+1] raises IndexError here: see unpack_raises
    ELSE LET op == co_code[i + 1]
             arg == IF op >= HAVE_ARGUMENT
                    THEN BitOr(co_code[i + 2], extended_arg)
                    ELSE None
             ext == IF op >= HAVE_ARGUMENT
                    THEN (IF op = EXTENDED_ARG THEN arg * 256 ELSE 0)
                    ELSE extended_arg
         IN  <<[offset |-> i, op |-> op, arg |-> arg]>>
                 \o unpack_from(co_code, i + 2, ext)

_unpack_opargs(co_code) == unpack_from(co_code, 0, 0)

\* whether the generator _unpack_opargs ends by raising IndexError: the last
\* byte of an odd-length stream is an opcode that takes an argument, and
\* code[i+1] is past the end
unpack_raises(co_code) ==
    /\ Len(co_code) % 2 = 1
    /\ co_code[Len(co_code)] >= HAVE_ARGUMENT

\* variant: the raw argument is taken as the label of every jump
label_of_raw(t) ==
    IF t.arg = None THEN None
    ELSE IF t.op \in hasjrel \cup hasjabs THEN t.arg
    ELSE None

\* the label of one unpacked instruction, None when it is not a jump
label_of(t) ==
    IF t.arg = None THEN None
    ELSE IF t.op \in hasjrel THEN t.offset + 2 + t.arg
    ELSE IF t.op \in hasjabs THEN t.arg
    ELSE None

\* findlabels returns the list of distinct labels; only membership is used
findlabels(co_code) ==
    LET u == _unpack_opargs(co_code)
    IN  {label_of(u[k]) : k \in DOMAIN u} \ {None}

RECURSIVE linestarts_from(_, _, _, _, _, _)
\* the generator body of findlinestarts from lnotab pair k on; yields a
\* sequence of <<addr, lineno>>
linestarts_from(lnotab, bytecode_len, k, lastlineno, lineno, addr) ==
    IF 2 * k > Len(lnotab)
    THEN IF lineno # lastlineno THEN <<<<addr, lineno>>>> ELSE <<>>
    ELSE LET byte_incr == lnotab[2 * k - 1]
             raw_incr == lnotab[2 * k]
             line_incr == IF raw_incr >= 128 THEN raw_incr - 256 ELSE raw_incr
             yields == byte_incr # 0 /\ lineno # lastlineno
             last2 == IF yields THEN lineno ELSE lastlineno
             addr2 == addr + byte_incr
         IN  (IF yields THEN <<<<addr, lineno>>>> ELSE <<>>)
             \o (IF byte_incr # 0 /\ addr2 >= bytecode_len
                 THEN <<>>
                 ELSE linestarts_from(lnotab, bytecode_len, k + 1, last2,
                                      lineno + line_incr, addr2))

findlinestarts(co_code) ==
    linestarts_from(co_lnotab(co_code), Len(co_code), 1, None, co_firstlineno, 0)

\* dict(findlinestarts(co)).get(offset, default): the last pair wins
linestarts_get(ls, offset, default) ==
    LET hits == {k \in DOMAIN ls : ls[k][1] = offset}
    IN  IF hits = {} THEN default
        ELSE ls[CHOOSE k \in hits : \A j \in hits : j <= k][2]

RECURSIVE starts_lines(_, _, _, _, _)
\* the running starts_line of _get_instructions_bytes for instructions k..n
starts_lines(u, ls, line_offset, k, starts_line) ==
    IF k > Len(u) THEN <<>>
    ELSE LET got == linestarts_get(ls, u[k].offset, starts_line)
             now == IF got # None THEN got + line_offset ELSE got
         IN  <<now>> \o starts_lines(u, ls, line_offset, k + 1, now)

\* _get_name_info(name_index, names)[0]
_get_name_info(name_index) == co_names[name_index + 1]

\* _get_const_info(const_index, constants)[0]
_get_const_info(const_index) == co_consts[const_index + 1]

\* variant: every instruction is flagged as an entry point
is_entry_point_every(offset) == offset >= 0

is_entry_point(offset) == offset = 0

is_jump_target(offset, labels) == offset \in labels

\* argval: the constant, the name, the target of a relative jump or the
\* comparison operator the argument stands for, the argument itself for any
\* other operation, None for an operation without argument
argval_of(t) ==
    IF t.arg = None THEN None
    ELSE IF t.op \in hasconst THEN _get_const_info(t.arg)
    ELSE IF t.op \in hasname THEN _get_name_info(t.arg)
    ELSE IF t.op \in hasjrel THEN t.offset + 2 + t.arg
    ELSE IF t.op \in hascompare THEN cmp_op[t.arg + 1]
    ELSE t.arg

\* variant: a call operation is a decision point whatever follows it
is_decision_point_any_call(op, succ_op) ==
    \/ op \in DECISION_OPS
    \/ op \in CALL_OPS

\* succ is the next unpacked instruction or None (pairwise pads with None,
\* and succ[1] on None raises the TypeError that is swallowed)
is_decision_point(op, succ_op) ==
    \/ op \in DECISION_OPS
    \/ /\ succ_op # None
       /\ succ_op \in BRANCH_OPS
       /\ op \in CALL_OPS

is_branch_point(op) == op \in BRANCH_OPS

IsLoadGlobalSys(t) == t.op = LOAD_GLOBAL /\ _get_name_info(t.arg) = "sys"

IsLoadMethodExit(t) == t.op = LOAD_METHOD /\ _get_name_info(t.arg) = "exit"

\* the sys.exit test: (POP_TOP and (LG(l[0]) and LM(l[1]))) or (LG(l[1]) and
\* LM(l[2])), evaluated left to right; an IndexError on last_four leaves the
\* flag False.  last_four is 1-indexed here.
exit_call_pattern(op, last_four) ==
    LET n == Len(last_four)
        raises1 == op = POP_TOP /\ (n < 1 \/ (IsLoadGlobalSys(last_four[1]) /\ n < 2))
        first == /\ op = POP_TOP
                 /\ n >= 2
                 /\ IsLoadGlobalSys(last_four[1])
                 /\ IsLoadMethodExit(last_four[2])
        raises2 == n < 2 \/ (IsLoadGlobalSys(last_four[2]) /\ n < 3)
        second == /\ n >= 3
                  /\ IsLoadGlobalSys(last_four[2])
                  /\ IsLoadMethodExit(last_four[3])
    IN  IF raises1 THEN FALSE
        ELSE IF first THEN TRUE
        ELSE IF raises2 THEN FALSE
        ELSE second

is_exit_point(op, last_four) ==
    \/ op \in EXIT_OPS
    \/ exit_call_pattern(op, last_four)

\* the XInstruction yielded for the unpacked instruction t, given its
\* successor's opcode (None for the last), the jump labels, the running line
\* and the window of the up to four instructions before it
XInstruction(t, succ_op, labels, starts_line, last_four) ==
    [opcode |-> t.op,
     arg |-> t.arg,
     argval |-> argval_of(t),
     offset |-> t.offset,
     starts_line |-> starts_line,
     is_entry_point |-> is_entry_point(t.offset),
     is_jump_target |-> is_jump_target(t.offset, labels),
     is_decision_point |-> is_decision_point(t.op, succ_op),
     is_branch_point |-> is_branch_point(t.op),
     is_exit_point |-> is_exit_point(t.op, last_four)]

\* the loop of _get_instructions_bytes over the unpacked instructions u
instructions_of(u, labels, lines) ==
    [k \in DOMAIN u |->
        XInstruction(u[k],
                     IF k < Len(u) THEN u[k + 1].op ELSE None,
                     labels,
                     lines[k],
                     SubSeq(u, Max(1, k - 4), k - 1))]

instructions_from(u, labels, ls, line_offset) ==
    instructions_of(u, labels, starts_lines(u, ls, line_offset, 1, None))

\* the XInstruction sequence yielded for a byte stream
_get_instructions_bytes(co_code, line_offset) ==
    instructions_from(_unpack_opargs(co_code), findlabels(co_code),
                      findlinestarts(co_code), line_offset)

\* XBytecode(x).instr_map.values(): first_line is None, so line_offset is 0
XBytecode(co_code) == _get_instructions_bytes(co_code, 0)

\* XBytecode(x, first_line=f).instr_map.values(): line_offset is
\* f - co.co_firstlineno
XBytecode_first_line(co_code, f) ==
    _get_instructions_bytes(co_code, f - co_firstlineno)

\* The object x handed to the analysis is of one of these kinds:
\*   "code"                 a function, a method or a code object whose source
\*                          text inspect.getsource finds
\*   "code_without_source"  a code object that has no source file
\*   "generator"            a generator, asynchronous generator or coroutine
\*                          object
\*   "string"               a source string that compiles and is not empty
\*   "empty_string"         the source string ''
\*   "unparsable"           a source string with a syntax error
\*   "null_byte_string"     a source string that contains a null byte
\*   "too_nested_string"    a source string nested too deep for the parser
\*   "falsy"                None, 0 or an empty list
\*   "unsupported"          any other object, such as a non-zero number
SourceStrings ==
    {"string", "empty_string", "unparsable", "null_byte_string", "too_nested_string"}

\* the objects that have or are a code object
CodeObjects == {"code", "code_without_source", "generator"}

\* what _try_compile raises on a source string, "ok" when it compiles:
\* compile raises SyntaxError in both modes, ValueError for a null byte and
\* MemoryError when the parser stack overflows
_try_compile(x) ==
    IF x = "unparsable" THEN "SyntaxError"
    ELSE IF x = "null_byte_string" THEN "ValueError"
    ELSE IF x = "too_nested_string" THEN "MemoryError"
    ELSE "ok"

\* what _get_code_object raises, "ok" when it returns a code object
_get_code_object(x) ==
    IF x \in SourceStrings THEN _try_compile(x)
    ELSE IF x \in CodeObjects THEN "ok"
    ELSE "TypeError"

\* what XBytecode(x) raises, "ok" when the object is constructed: a TypeError
\* or ValueError of _get_code_object is turned into CCMError, any other
\* exception passes, and so does the IndexError of _unpack_opargs when the
\* instruction map is filled
XBytecode_init(x, co_code) ==
    IF _get_code_object(x) \in {"TypeError", "ValueError"} THEN "CCMError"
    ELSE IF _get_code_object(x) # "ok" THEN _get_code_object(x)
    ELSE IF unpack_raises(co_code) THEN "IndexError"
    ELSE "ok"

\* what inspect.getsource(x) raises, "ok" when it returns the source text:
\* TypeError for an object that is no module, class, method, function,
\* traceback, frame or code object, OSError when the source file is not found
getsource(x) ==
    IF x = "code" THEN "ok"
    ELSE IF x = "code_without_source" THEN "OSError"
    ELSE "TypeError"

\* the objects that are false in a condition
FalsyObjects == {"falsy", "empty_string"}

---------------------------------------------------------------------------
\* networkx helpers

\* nodes added by add_edges_from
EdgeNodes(E) == {e[1] : e \in E} \cup {e[2] : e \in E}

RECURSIVE ReachFrom(_, _)
\* the nodes reachable from the set S along the edges E (S included)
ReachFrom(E, S) ==
    LET T == S \cup {e[2] : e \in {d \in E : d[1] \in S}}
    IN  IF T = S THEN S ELSE ReachFrom(E, T)

\* nx.strongly_connected_components(G): the set of components
strongly_connected_components(g) ==
    LET desc == [v \in g.nodes |-> ReachFrom(g.edges, {v})]
    IN  {{w \in desc[v] : v \in desc[w]} : v \in g.nodes}

number_strongly_connected_components(g) ==
    Cardinality(strongly_connected_components(g))

number_of_nodes(g) == Cardinality(g.nodes)

number_of_edges(g) == Cardinality(g.edges)

\* sum(1 for instr in instr_map.values() if flag(instr))
CountFlag(instr_map, flag) ==
    Cardinality({k \in DOMAIN instr_map : instr_map[k][flag]})

\* no source code graph: self._source_code_graph = None
NoSourceGraph == [nodes |-> {}, edges |-> {}, src_line |-> <<>>]

NoGraph ==
    [status |-> "none", code |-> <<>>, nodes |-> {}, edges |-> {},
     has_xbytecode |-> FALSE,
     instr_map |-> <<>>, source_code_graph |-> NoSourceGraph,
     number_entry_points |-> 0, number_decision_points |-> 0,
     number_branch_points |-> 0, number_exit_points |-> 0]

\* a constructor that raised: no object exists
Raised(exc) == [NoGraph EXCEPT !.status = exc]

\* the graph __init__ leaves when it returns before the code is read: no
\* node, no code, no XBytecode, no source code graph, counters 0
EmptyGraph == [NoGraph EXCEPT !.status = "ok"]

\* the graph __init__ makes of graph data: networkx adds the edges, and code,
\* XBytecode, source code graph and counters stay as initialised
graph_data_object(E) ==
    [EmptyGraph EXCEPT !.nodes = EdgeNodes(E), !.edges = E]

\* variant: the counters are taken over the instructions that are nodes of
\* the graph instead of over the whole instruction map
graph_object_node_counts(co_code, N, E, instr_map) ==
    [status |-> "ok",
     code |-> co_code,
     nodes |-> N,
     edges |-> E,
     has_xbytecode |-> TRUE,
     instr_map |-> instr_map,
     source_code_graph |-> NoSourceGraph,
     number_entry_points |->
         CountFlag(SelectSeq(instr_map, LAMBDA i : i.offset \in N), "is_entry_point"),
     number_decision_points |->
         CountFlag(SelectSeq(instr_map, LAMBDA i : i.offset \in N), "is_decision_point"),
     number_branch_points |->
         CountFlag(SelectSeq(instr_map, LAMBDA i : i.offset \in N), "is_branch_point"),
     number_exit_points |->
         CountFlag(SelectSeq(instr_map, LAMBDA i : i.offset \in N), "is_exit_point")]

\* a graph object with its four counters taken over the instruction map
\* (the tee'd sums of __init__ and of get_subgraph)
graph_object(co_code, N, E, instr_map) ==
    [status |-> "ok",
     code |-> co_code,
     nodes |-> N,
     edges |-> E,
     has_xbytecode |-> TRUE,
     instr_map |-> instr_map,
     source_code_graph |-> NoSourceGraph,
     number_entry_points |-> CountFlag(instr_map, "is_entry_point"),
     number_decision_points |-> CountFlag(instr_map, "is_decision_point"),
     number_branch_points |-> CountFlag(instr_map, "is_branch_point"),
     number_exit_points |-> CountFlag(instr_map, "is_exit_point")]

---------------------------------------------------------------------------
\* Graph builder: src/ccm/graphs.py

\* the node that receives the exit edges: yield (instr.offset, 0)
sink == 0

\* the edges yielded for one pair (instr_a, instr_b) of the product
pair_edges(a, b) ==
    (IF b.offset - 2 = a.offset /\ ~a.is_exit_point
     THEN {<<a.offset, b.offset>>} ELSE {})
    \cup (IF b.is_jump_target /\ a.arg = b.offset
          THEN {<<a.offset, b.offset>>} ELSE {})
    \cup (IF a.is_exit_point THEN {<<a.offset, sink>>} ELSE {})
    \cup (IF b.is_exit_point THEN {<<b.offset, sink>>} ELSE {})

\* variant: every pair of the product is used, whatever the order of offsets
get_edges_unordered(instr_map) ==
    UNION {pair_edges(instr_map[p[1]], instr_map[p[2]]) :
              p \in (DOMAIN instr_map) \X (DOMAIN instr_map)}

\* the edges generated from the ordered pairs (a, b) of the product of the
\* instruction map with itself that have b.offset > a.offset
get_edges(instr_map) ==
    UNION {pair_edges(instr_map[p[1]], instr_map[p[2]]) :
              p \in {q \in (DOMAIN instr_map) \X (DOMAIN instr_map) :
                        instr_map[q[2]].offset > instr_map[q[1]].offset}}

\* the key of an instruction in the instruction map the graph module of
\* src/ccm reads: instr_map[offset]
instr_map_key(instr) == instr.offset

\* instr_map[i].starts_line
starts_line_at(instr_map, i) ==
    instr_map[CHOOSE k \in DOMAIN instr_map : instr_map_key(instr_map[k]) = i].starts_line

\* the partition nx.quotient_graph makes of the nodes N by same_source_line
source_line_blocks(N, instr_map) ==
    {{m \in N : starts_line_at(instr_map, m) = starts_line_at(instr_map, n)} : n \in N}

\* variant: two blocks are joined only when every pair across them is an edge
block_to_block_all(E, B, C) == \A b \in B : \A c \in C : <<b, c>> \in E

\* block_to_block(B, C): any(edge in G.edges for edge in product(B, C))
block_to_block(E, B, C) == \E b \in B : \E c \in C : <<b, c>> \in E

\* block_relabelling[B]: the line of the lowest offset of the block
block_label(instr_map, B) ==
    starts_line_at(instr_map, CHOOSE m \in B : \A o \in B : m <= o)

\* the quotient graph over the blocks, relabelled: nx.quotient_graph joins
\* two different blocks B, C when edge_relation(B, C) holds
quotient_graph(E, instr_map, blocks) ==
    [nodes |-> {block_label(instr_map, B) : B \in blocks},
     edges |-> {<<block_label(instr_map, p[1]), block_label(instr_map, p[2])>> :
                   p \in {q \in blocks \X blocks :
                             q[1] # q[2] /\ block_to_block(E, q[1], q[2])}}]

\* src_map: the non-empty lines of the source text, numbered from 1
src_map(lines) == SelectSeq(lines, LAMBDA l : l # EmptyText)

\* src_map.get(n)
src_map_get(lines, n) ==
    IF n \in DOMAIN src_map(lines) THEN src_map(lines)[n] ELSE None

\* Q.nodes[n].update({'src_line': src_map.get(n)}) for every node n of q
with_src_lines(q, lines) ==
    [nodes |-> q.nodes, edges |-> q.edges,
     src_line |-> [n \in q.nodes |-> src_map_get(lines, n)]]

\* get_source_code_graph(xbytecode_graph=g) on a graph with a node
get_source_code_graph(g) ==
    with_src_lines(
        quotient_graph(g.edges, g.instr_map, source_line_blocks(g.nodes, g.instr_map)),
        getsource_lines(g.code))

\* self._source_code_graph = get_source_code_graph(xbytecode_graph=self)
set_source_code_graph(g) ==
    [g EXCEPT !.source_code_graph = get_source_code_graph(g)]

\* the tail of __init__ once the edges E are added: the counters, then
\* get_source_code_graph(xbytecode_graph=self), which raises CCMException
\* when the graph is falsy, that is when it has no node
init_graph(co_code, instr_map, E) ==
    IF EdgeNodes(E) = {} THEN Raised("CCMException")
    ELSE set_source_code_graph(graph_object(co_code, EdgeNodes(E), E, instr_map))

graph_from(co_code, instr_map) ==
    init_graph(co_code, instr_map, get_edges(instr_map))

\* XBytecodeGraph(code=code)
XBytecodeGraph(co_code) == graph_from(co_code, XBytecode(co_code))

\* XBytecodeGraph(code=x) for an object x of any kind: a falsy x gives the
\* empty graph; the constructor lets what XBytecode(x) raises pass (except
\* CCMError: raise); get_source_code_graph raises CCMException for a graph
\* without node before it raises what inspect.getsource(x) raises
new_XBytecodeGraph(x, co_code) ==
    IF x \in FalsyObjects THEN EmptyGraph
    ELSE IF XBytecode_init(x, co_code) # "ok" THEN Raised(XBytecode_init(x, co_code))
    ELSE IF get_edges(XBytecode(co_code)) = {} THEN Raised("CCMException")
    ELSE IF getsource(x) # "ok" THEN Raised(getsource(x))
    ELSE XBytecodeGraph(co_code)

\* XBytecodeGraph(graph_data=d): falsy data give the empty graph, data
\* networkx cannot convert raise NetworkXError, turned into CCMError
new_XBytecodeGraph_graph_data(d) ==
    IF ~d.is_graph THEN Raised("CCMError")
    ELSE IF d.edges = {} THEN EmptyGraph
    ELSE graph_data_object(d.edges)

\* a get_subgraph selector: absent (None) or a collection
NoneSel == [given |-> FALSE, items |-> {}]
Sel(S) == [given |-> TRUE, items |-> S]
Truthy(s) == s.given /\ s.items # {}

\* _nodes = nodes or [n for e in edges for n in e]
selected_nodes(nodes, edges) ==
    IF Truthy(nodes) THEN nodes.items
    ELSE UNION {{e[1], e[2]} : e \in edges.items}

\* H.remove_nodes_from(to_remove), the restriction of the instruction map to
\* the keys not in to_remove, and the counters over the restricted map; the
\* source code graph the constructor gave H stays
remove_nodes_from(Hn, to_remove) ==
    [graph_object(Hn.code,
                  Hn.nodes \ to_remove,
                  {e \in Hn.edges : e[1] \notin to_remove /\ e[2] \notin to_remove},
                  SelectSeq(Hn.instr_map,
                            LAMBDA i : instr_map_key(i) \notin to_remove))
        EXCEPT !.source_code_graph = Hn.source_code_graph]

\* the body of get_subgraph on the fresh graph H = self.__class__(code=self.code);
\* a constructor that raised propagates
subgraph_of(Hn, _nodes) ==
    IF Hn.status # "ok" THEN Hn
    ELSE IF ~Hn.has_xbytecode THEN Raised("AttributeError")
    ELSE remove_nodes_from(Hn, Hn.nodes \ _nodes)

\* H = self.__class__(code=self.code): self.code is None for a graph without
\* XBytecode, and the object the graph was built from otherwise
rebuilt(self) ==
    IF self.has_xbytecode THEN XBytecodeGraph(self.code) ELSE EmptyGraph

\* variant: the selector check is left out
get_subgraph_unvalidated(self, nodes, edges) ==
    subgraph_of(rebuilt(self), selected_nodes(nodes, edges))

\* self.get_subgraph(nodes, edges)
get_subgraph(self, nodes, edges) ==
    IF ~(Truthy(edges) \/ Truthy(nodes)) THEN Raised("CCMException")
    ELSE subgraph_of(rebuilt(self), selected_nodes(nodes, edges))

\* variant: H is self, so the removals and the new map land on self
get_subgraph_self_aliased(self, nodes, edges) == get_subgraph(self, nodes, edges)

\* self after self.get_subgraph(nodes, edges): H is a new object built from
\* self.code, and every later statement writes to H
get_subgraph_self(self, nodes, edges) == self

\* the graph nx.quotient_graph creates and get_source_code_graph returns:
\* an empty object of the class of G, given the blocks and their edges
source_code_graph_object(q) ==
    [NoGraph EXCEPT !.status = "ok", !.nodes = q.nodes, !.edges = q.edges]

\* XBytecodeGraph.get_source_code_graph(xbytecode_graph=g): CCMException for
\* a graph without node, which is falsy, and AttributeError for a graph
\* without XBytecode, at G.xbytecode.instr_map
get_source_code_graph_of(g) ==
    IF g.nodes = {} THEN Raised("CCMException")
    ELSE IF ~g.has_xbytecode THEN Raised("AttributeError")
    ELSE source_code_graph_object(get_source_code_graph(g))

\* the property setters of XBytecodeGraph
source_code_graph_setter(self, graph) == [self EXCEPT !.source_code_graph = graph]
number_entry_points_setter(self, n) == [self EXCEPT !.number_entry_points = n]
number_decision_points_setter(self, n) == [self EXCEPT !.number_decision_points = n]
number_branch_points_setter(self, n) == [self EXCEPT !.number_branch_points = n]
number_exit_points_setter(self, n) == [self EXCEPT !.number_exit_points = n]

\* the calls that leave a graph of src/ccm/graphs.py in G, and those that
\* leave one of src/src/ccm/graphs.py
GraphCalls == {"XBytecodeGraph", "XBytecodeGraph_graph_data"}
GraphCallsSrc == {"XBytecodeGraph_src", "XBytecodeGraph_src_graph_data"}

\* the argument after get_source_code_graph(xbytecode_graph=g): the
\* quotient and the relabelling are made on Q, g is only read
get_source_code_graph_arg(g) == g

---------------------------------------------------------------------------
\* Metrics: src/ccm/complexity.py.  Each takes the graph g its first line
\* builds, G = XBytecodeGraph(code=code); a constructor that raised
\* propagates.

Returned(v) == [status |-> "ok", value |-> v]
Raises(exc) == [status |-> exc, value |-> None]
NoResult == [status |-> "none", value |-> None]

\* variant: no connectivity check, the generalised formula is used instead
mccabe_complexity_unchecked(g) ==
    IF g.status # "ok" THEN Raises(g.status)
    ELSE Returned(number_of_edges(g) - number_of_nodes(g)
                  + 2 * number_strongly_connected_components(g))

mccabe_complexity(g) ==
    IF g.status # "ok" THEN Raises(g.status)
    ELSE LET p == number_strongly_connected_components(g)
         IN  IF p > 1 THEN Raises("TypeError")
             ELSE Returned(number_of_edges(g) - number_of_nodes(g) + 2)

mccabe_generalised_complexity(g) ==
    IF g.status # "ok" THEN Raises(g.status)
    ELSE LET n == number_of_nodes(g)
             e == number_of_edges(g)
             p == number_strongly_connected_components(g)
         IN  Returned(e - n + 2 * p)

\* variant: the connectivity check of mccabe_complexity is copied in
henderson_sellers_complexity_connected(g) ==
    IF g.status # "ok" THEN Raises(g.status)
    ELSE LET p == number_strongly_connected_components(g)
         IN  IF p > 1 THEN Raises("TypeError")
             ELSE Returned(number_of_edges(g) - number_of_nodes(g) + p + 1)

henderson_sellers_complexity(g) ==
    IF g.status # "ok" THEN Raises(g.status)
    ELSE LET n == number_of_nodes(g)
             e == number_of_edges(g)
             p == number_strongly_connected_components(g)
         IN  Returned(e - n + p + 1)

\* variant: e - n + p - 1
henderson_sellers_tegarden_complexity_less_one(g) ==
    IF g.status # "ok" THEN Raises(g.status)
    ELSE Returned(number_of_edges(g) - number_of_nodes(g)
                  + number_strongly_connected_components(g) - 1)

henderson_sellers_tegarden_complexity(g) ==
    IF g.status # "ok" THEN Raises(g.status)
    ELSE LET n == number_of_nodes(g)
             e == number_of_edges(g)
             p == number_strongly_connected_components(g)
         IN  Returned(e - n + p)

RECURSIVE SumOver(_, _)
\* sum(f[c] for c in S)
SumOver(S, f) ==
    IF S = {} THEN 0
    ELSE LET c == CHOOSE x \in S : TRUE
         IN  f[c] + SumOver(S \ {c}, f)

\* X sums G.get_subgraph(G, comp).number_exit_points over the components:
\* the graph G itself is passed as the node selector (iterating a graph
\* gives its nodes, and a graph with a node is truthy) and the component as
\* the edge selector
henderson_sellers_tegarden_generalised_complexity(g) ==
    IF g.status # "ok" THEN Raises(g.status)
    ELSE LET n == number_of_nodes(g)
             e == number_of_edges(g)
             comps == strongly_connected_components(g)
             exits == [comp \in comps |->
                          get_subgraph(g, Sel(g.nodes), Sel(comp)).number_exit_points]
             X == SumOver(comps, exits)
         IN  Returned(e - n + X + 2)

harrison_complexity(g) ==
    IF g.status # "ok" THEN Raises(g.status)
    ELSE LET d == g.number_decision_points
             x == g.number_exit_points
         IN  Returned(d - x + 2)

---------------------------------------------------------------------------
\* Graph builder: src/src/ccm/graphs.py, over the instruction map of
\* src/src/ccm/xdis.py

\* the key of an instruction in XBytecode._instr_map
instr_map_key_src(instr) == <<instr.starts_line, instr.offset>>

\* Python's == between a (starts_line, offset) key and an integer node: a
\* tuple equals no integer
PyEqTupleInt(key, n) == FALSE

\* get_source_line(offset): the line in the key of the instruction at offset
get_source_line(instr_map, offset) ==
    instr_map_key_src(
        instr_map[CHOOSE k \in DOMAIN instr_map : instr_map[k].offset = offset])[1]

\* instr_map[(get_source_line(offset), offset)].starts_line
starts_line_at_src(instr_map, offset) ==
    instr_map[CHOOSE k \in DOMAIN instr_map :
                 instr_map_key_src(instr_map[k])
                     = <<get_source_line(instr_map, offset), offset>>].starts_line

\* the partition nx.quotient_graph makes of the nodes N by same_source_line
source_line_blocks_src(N, instr_map) ==
    {{m \in N : starts_line_at_src(instr_map, m) = starts_line_at_src(instr_map, n)} :
        n \in N}

\* block_relabelling[B]
block_label_src(instr_map, B) ==
    starts_line_at_src(instr_map, CHOOSE m \in B : \A o \in B : m <= o)

\* the quotient graph over the blocks, relabelled
quotient_graph_src(E, instr_map, blocks) ==
    [nodes |-> {block_label_src(instr_map, B) : B \in blocks},
     edges |-> {<<block_label_src(instr_map, p[1]), block_label_src(instr_map, p[2])>> :
                   p \in {q \in blocks \X blocks :
                             q[1] # q[2] /\ block_to_block(E, q[1], q[2])}}]

\* get_source_code_graph(code) when every node is an instruction offset
get_source_code_graph_src(g) ==
    with_src_lines(
        quotient_graph_src(g.edges, g.instr_map,
                           source_line_blocks_src(g.nodes, g.instr_map)),
        getsource_lines(g.code))

\* self._source_code_graph = get_source_code_graph(code=self.code)
set_source_code_graph_src(g) ==
    [g EXCEPT !.source_code_graph = get_source_code_graph_src(g)]

\* the edges yielded when the loop reaches instr: has_prev says whether an
\* instruction came before it, and prev_instr is that instruction
step_edges_src(has_prev, prev_instr, instr) ==
    (IF instr.is_exit_point
     THEN (IF has_prev THEN {<<prev_instr.offset, instr.offset>>} ELSE {})
          \cup {<<instr.offset, sink>>}
     ELSE IF instr.is_branch_point
     THEN {<<instr.offset, instr.arg>>}
     ELSE IF has_prev /\ ~prev_instr.is_exit_point
     THEN {<<prev_instr.offset, instr.offset>>}
     ELSE {})
    \cup (IF has_prev /\ prev_instr.is_decision_point /\ instr.is_branch_point
          THEN {<<prev_instr.offset, instr.offset>>}
          ELSE {})

\* the edges generated by the single pass over the instruction map
get_edges_src(instr_map) ==
    UNION {step_edges_src(k > 1, instr_map[Max(1, k - 1)], instr_map[k]) :
              k \in DOMAIN instr_map}

\* the tail of __init__ once the edges E are added: the counters, then
\* get_source_code_graph(code), whose relabelling looks up
\* instr_map[(get_source_line(min(B)), min(B))] for every block B and raises
\* KeyError for a node that is no instruction offset
init_graph_src(co_code, instr_map, E) ==
    IF ~(EdgeNodes(E) \subseteq {instr_map[k].offset : k \in DOMAIN instr_map})
    THEN Raised("KeyError")
    ELSE set_source_code_graph_src(graph_object(co_code, EdgeNodes(E), E, instr_map))

graph_from_src(co_code, instr_map) ==
    init_graph_src(co_code, instr_map, get_edges_src(instr_map))

\* XBytecodeGraph(code=code)
XBytecodeGraph_src(co_code) == graph_from_src(co_code, XBytecode(co_code))

\* XBytecodeGraph(code=x) for an object x of any kind: a falsy x gives the
\* empty graph; get_source_code_graph reads the source text with
\* inspect.getsource(x) before it makes the quotient
new_XBytecodeGraph_src(x, co_code) ==
    IF x \in FalsyObjects THEN EmptyGraph
    ELSE IF XBytecode_init(x, co_code) # "ok" THEN Raised(XBytecode_init(x, co_code))
    ELSE IF getsource(x) # "ok" THEN Raised(getsource(x))
    ELSE XBytecodeGraph_src(co_code)

\* the dict comprehension of get_subgraph over the (starts_line, offset) keys:
\* no key equals a node of to_remove, so every entry is kept
restricted_map_src(instr_map, to_remove) ==
    SelectSeq(instr_map,
              LAMBDA i : ~(\E n \in to_remove :
                              PyEqTupleInt(instr_map_key_src(i), n)))

\* H.xbytecode.instr_map = new_map on the XBytecode of src/src/ccm/xdis.py:
\* instr_map is a property without a setter, the assignment raises
set_instr_map_src(Hn, new_map) == Raised("AttributeError")

\* the body of get_subgraph on the fresh graph H = self.__class__(code=self.code);
\* a constructor that raised propagates
subgraph_of_src(Hn, _nodes) ==
    IF Hn.status # "ok" THEN Hn
    ELSE IF ~Hn.has_xbytecode THEN Raised("AttributeError")
    ELSE set_instr_map_src(Hn, restricted_map_src(Hn.instr_map, Hn.nodes \ _nodes))

\* self.get_subgraph(nodes, edges)
get_subgraph_src(self, nodes, edges) ==
    IF ~(Truthy(edges) \/ Truthy(nodes)) THEN Raised("CCMException")
    ELSE subgraph_of_src(IF self.has_xbytecode THEN XBytecodeGraph_src(self.code)
                         ELSE EmptyGraph,
                         selected_nodes(nodes, edges))

---------------------------------------------------------------------------
\* The routines analysed

RECURSIVE Flatten(_)
\* the byte stream of a sequence of <<op, arg>> units
Flatten(units) ==
    IF units = <<>> THEN <<>> ELSE units[1] \o Flatten(Tail(units))

CoreUnits ==
    { <<POP_TOP, 0>>, <<LOAD_CONST, 6>>, <<RETURN_VALUE, 0>>, <<COMPARE_OP, 0>>,
      <<POP_JUMP_IF_FALSE, 6>>, <<JUMP_ABSOLUTE, 0>> }

\* every jump lands on an instruction of the routine, every name index is
\* in co_names, every constant index in co_consts and every comparison index
\* in cmp_op
ValidCode(co_code) ==
    LET u == _unpack_opargs(co_code)
    IN  /\ findlabels(co_code) \subseteq {u[k].offset : k \in DOMAIN u}
        /\ \A k \in DOMAIN u :
              /\ u[k].op \in hasname => u[k].arg < Len(co_names)
              /\ u[k].op \in hasconst => u[k].arg < Len(co_consts)
              /\ u[k].op \in hascompare => u[k].arg < Len(cmp_op)

CoreCodes ==
    {c \in {Flatten(us) : us \in UNION {[1..n -> CoreUnits] : n \in 1..MaxInstrs}} :
        ValidCode(c)}

RECURSIVE Filler(_)
Filler(n) == IF n = 0 THEN <<>> ELSE <<<<POP_TOP, 0>>>> \o Filler(n - 1)

\* sys.exit(), sys.exit(c), a call tested by a jump, a raise, a jump whose
\* argument has an extended-arg prefix, a run of two prefixes, and a prefix
\* followed by an operation without argument
Patterns ==
    { << <<LOAD_GLOBAL, 0>>, <<LOAD_METHOD, 1>>, <<CALL_METHOD, 0>>, <<POP_TOP, 0>> >>,
      << <<LOAD_GLOBAL, 0>>, <<LOAD_METHOD, 1>>, <<LOAD_CONST, 6>>,
         <<CALL_METHOD, 1>>, <<POP_TOP, 0>> >>,
      << <<CALL_FUNCTION, 0>>, <<JUMP_FORWARD, 2>>, <<POP_TOP, 0>> >>,
      << <<LOAD_GLOBAL, 2>>, <<RAISE_VARARGS, 1>> >>,
      << <<EXTENDED_ARG, 1>>, <<JUMP_ABSOLUTE, 4>>, <<POP_TOP, 0>> >>,
      << <<EXTENDED_ARG, 1>>, <<EXTENDED_ARG, 2>>, <<CALL_FUNCTION, 3>> >>,
      << <<EXTENDED_ARG, 1>>, <<POP_TOP, 0>>, <<CALL_FUNCTION, 0>> >> }

\* a pattern after its filler and before the closing return None
PatternCodes ==
    {Flatten(Filler(n) \o p \o << <<LOAD_CONST, 0>>, <<RETURN_VALUE, 0>> >>) :
        n \in 0..MaxPrefix, p \in Patterns}

Inputs == CoreCodes \cup PatternCodes

\* byte streams cut one byte short: the last instruction lacks its second byte
TruncatedCodes ==
    {SubSeq(Flatten(us), 1, 2 * Len(us) - 1) :
        us \in UNION {[1..n -> CoreUnits] : n \in 1..MaxTruncated}}

\* routines that end in a call: the call has no successor
CallTails ==
    { << <<CALL_FUNCTION, 0>> >>,
      << <<CALL_FUNCTION, 0>>, <<POP_JUMP_IF_FALSE, 0>>, <<CALL_FUNCTION, 0>> >> }

CallTailCodes == {Flatten(Filler(n) \o t) : n \in 0..MaxPrefix, t \in CallTails}

\* the first_line arguments tried: the routine's own first line and a later
\* one
FirstLines == {co_firstlineno, co_firstlineno + 2}

\* the objects handed to the analysis
Origins == SourceStrings \cup CodeObjects \cup {"falsy", "unsupported"}

\* return None, the routine the empty string and a blank string compile to
ReturnNone == Flatten(<< <<LOAD_CONST, 0>>, <<RETURN_VALUE, 0>> >>)

\* the routines of the code objects without source file: return None, a
\* single return, and a byte stream cut short
CodesWithoutSource == {ReturnNone, <<RETURN_VALUE, 0>>, <<LOAD_CONST>>}

\* the routines an object of kind x has: none when no code object is made
CodesOf(x) ==
    IF x = "code" THEN Inputs \cup TruncatedCodes \cup CallTailCodes
    ELSE IF x = "code_without_source" THEN CodesWithoutSource
    ELSE IF x \in {"generator", "string", "empty_string"} THEN {ReturnNone}
    ELSE {<<>>}

\* the graph data handed to the constructor: lists of edges, the empty list,
\* and an object networkx cannot convert
GraphData ==
    {[is_graph |-> TRUE, edges |-> E] :
        E \in {{}, {<<0, 2>>}, {<<0, 2>>, <<2, 0>>}, {<<0, 2>>, <<4, 6>>}}}
    \cup {[is_graph |-> FALSE, edges |-> {}]}

\* the values handed to the setters of the four counters
SetterValues == {0, 7}

\* the selector pairs tried on a graph g: absent and empty selectors, one
\* node, one edge leaving one of the first two instructions, and a node
\* together with an edge
SelPairs(g) ==
    ({NoneSel, Sel({})} \X {NoneSel, Sel({})})
    \cup {<<Sel({v}), NoneSel>> : v \in g.nodes}
    \cup {<<NoneSel, Sel({e})>> : e \in {d \in g.edges : d[1] <= 2}}
    \cup {<<Sel({0}), Sel({e})>> : e \in {d \in g.edges : d[1] = 0}}
    \cup (IF g.nodes = {} THEN {<<Sel({0}), NoneSel>>} ELSE {})

---------------------------------------------------------------------------
\* Instructions by source line: src/ccm/source.py

\* the empty map
NoLines == <<>>

RECURSIVE groupby(_)
\* itertools.groupby(items, key=starts_line): the runs of consecutive items
\* of one key, each as <<key, run>>, in order
groupby(items) ==
    IF items = <<>> THEN <<>>
    ELSE LET key == items[1].starts_line
             n   == CHOOSE m \in 1..Len(items) :
                        /\ \A j \in 1..m : items[j].starts_line = key
                        /\ m < Len(items) => items[m + 1].starts_line # key
         IN  <<<<key, SubSeq(items, 1, n)>>>>
                 \o groupby(SubSeq(items, n + 1, Len(items)))

\* OrderedDict(pairs): a key given twice keeps the value given last
OrderedDict(pairs) ==
    [key \in {pairs[j][1] : j \in DOMAIN pairs} |->
        pairs[CHOOSE j \in DOMAIN pairs :
                  /\ pairs[j][1] = key
                  /\ \A i \in DOMAIN pairs : pairs[i][1] = key => i <= j][2]]

\* get_bytecode_instructions_by_source_line(bytecode): a map from each line
\* number to the instructions of the group of that line, in offset order
get_bytecode_instructions_by_source_line(instr_map) ==
    OrderedDict(groupby(instr_map))

---------------------------------------------------------------------------
\* The state machine

Init ==
    /\ origin \in Origins
    /\ first_line = None
    /\ code \in CodesOf(origin)
    /\ call = "none"
    /\ xb = <<>>
    /\ G = NoGraph
    /\ H = NoGraph
    /\ sel = <<NoneSel, NoneSel>>
    /\ by_line = NoLines
    /\ result = NoResult

\* XBytecode(code)
Decode ==
    /\ call = "none"
    /\ call' = "XBytecode"
    /\ result' = IF XBytecode_init(origin, code) = "ok" THEN NoResult
                 ELSE Raises(XBytecode_init(origin, code))
    /\ xb' = IF XBytecode_init(origin, code) = "ok" THEN XBytecode(code) ELSE <<>>
    /\ first_line' = IF XBytecode_init(origin, code) = "ok" THEN co_firstlineno
                     ELSE None
    /\ UNCHANGED <<origin, code, by_line, G, H, sel>>

\* XBytecode(code, first_line=f)
DecodeFirstLine ==
    /\ call = "none"
    /\ \E f \in FirstLines :
          IF XBytecode_init(origin, code) = "ok"
          THEN /\ first_line' = f
               /\ xb' = XBytecode_first_line(code, f)
               /\ result' = NoResult
          ELSE /\ first_line' = None
               /\ xb' = <<>>
               /\ result' = Raises(XBytecode_init(origin, code))
    /\ call' = "XBytecode_first_line"
    /\ UNCHANGED <<origin, code, by_line, G, H, sel>>

\* get_bytecode_instructions_by_source_line(XBytecode(code))
GetInstructionsBySourceLine ==
    /\ call = "XBytecode"
    /\ result = NoResult
    /\ call' = "get_bytecode_instructions_by_source_line"
    /\ by_line' = get_bytecode_instructions_by_source_line(xb)
    /\ UNCHANGED <<origin, code, first_line, xb, G, H, sel, result>>

\* XBytecodeGraph(code=code) of src/ccm/graphs.py
NewGraph ==
    /\ call = "none"
    /\ call' = "XBytecodeGraph"
    /\ G' = new_XBytecodeGraph(origin, code)
    /\ xb' = G'.instr_map
    /\ result' = IF G'.status = "ok" THEN NoResult ELSE Raises(G'.status)
    /\ UNCHANGED <<origin, code, by_line, first_line, H, sel>>

\* XBytecodeGraph(code=code) of src/src/ccm/graphs.py
NewGraphSrc ==
    /\ call = "none"
    /\ call' = "XBytecodeGraph_src"
    /\ G' = new_XBytecodeGraph_src(origin, code)
    /\ xb' = G'.instr_map
    /\ result' = IF G'.status = "ok" THEN NoResult ELSE Raises(G'.status)
    /\ UNCHANGED <<origin, code, by_line, first_line, H, sel>>

\* XBytecodeGraph(graph_data=d) of src/ccm/graphs.py: the code argument is
\* left at its default, None
NewGraphData ==
    /\ call = "none"
    /\ origin = "falsy"
    /\ call' = "XBytecodeGraph_graph_data"
    /\ \E d \in GraphData : G' = new_XBytecodeGraph_graph_data(d)
    /\ result' = IF G'.status = "ok" THEN NoResult ELSE Raises(G'.status)
    /\ UNCHANGED <<origin, code, by_line, first_line, xb, H, sel>>

\* XBytecodeGraph(graph_data=d) of src/src/ccm/graphs.py: the code argument is
\* left at its default, None
NewGraphDataSrc ==
    /\ call = "none"
    /\ origin = "falsy"
    /\ call' = "XBytecodeGraph_src_graph_data"
    /\ \E d \in GraphData : G' = new_XBytecodeGraph_graph_data(d)
    /\ result' = IF G'.status = "ok" THEN NoResult ELSE Raises(G'.status)
    /\ UNCHANGED <<origin, code, by_line, first_line, xb, H, sel>>

\* The property setters.  The class of src/ccm/graphs.py has a setter for the
\* source code graph and for each counter; the properties of the class of
\* src/src/ccm/graphs.py have none, and the assignment raises AttributeError.

\* G.source_code_graph = None
SetSourceCodeGraph ==
    /\ call \in GraphCalls \cup GraphCallsSrc
    /\ G.status = "ok"
    /\ call' = "source_code_graph.setter"
    /\ G' = IF call \in GraphCalls THEN source_code_graph_setter(G, NoSourceGraph)
            ELSE G
    /\ result' = IF call \in GraphCalls THEN NoResult ELSE Raises("AttributeError")
    /\ UNCHANGED <<origin, code, by_line, first_line, xb, H, sel>>

\* G.number_entry_points = n
SetNumberEntryPoints ==
    /\ call \in GraphCalls \cup GraphCallsSrc
    /\ G.status = "ok"
    /\ call' = "number_entry_points.setter"
    /\ \E n \in SetterValues :
          G' = IF call \in GraphCalls THEN number_entry_points_setter(G, n) ELSE G
    /\ result' = IF call \in GraphCalls THEN NoResult ELSE Raises("AttributeError")
    /\ UNCHANGED <<origin, code, by_line, first_line, xb, H, sel>>

\* G.number_decision_points = n
SetNumberDecisionPoints ==
    /\ call \in GraphCalls \cup GraphCallsSrc
    /\ G.status = "ok"
    /\ call' = "number_decision_points.setter"
    /\ \E n \in SetterValues :
          G' = IF call \in GraphCalls THEN number_decision_points_setter(G, n) ELSE G
    /\ result' = IF call \in GraphCalls THEN NoResult ELSE Raises("AttributeError")
    /\ UNCHANGED <<origin, code, by_line, first_line, xb, H, sel>>

\* G.number_branch_points = n
SetNumberBranchPoints ==
    /\ call \in GraphCalls \cup GraphCallsSrc
    /\ G.status = "ok"
    /\ call' = "number_branch_points.setter"
    /\ \E n \in SetterValues :
          G' = IF call \in GraphCalls THEN number_branch_points_setter(G, n) ELSE G
    /\ result' = IF call \in GraphCalls THEN NoResult ELSE Raises("AttributeError")
    /\ UNCHANGED <<origin, code, by_line, first_line, xb, H, sel>>

\* G.number_exit_points = n
SetNumberExitPoints ==
    /\ call \in GraphCalls \cup GraphCallsSrc
    /\ G.status = "ok"
    /\ call' = "number_exit_points.setter"
    /\ \E n \in SetterValues :
          G' = IF call \in GraphCalls THEN number_exit_points_setter(G, n) ELSE G
    /\ result' = IF call \in GraphCalls THEN NoResult ELSE Raises("AttributeError")
    /\ UNCHANGED <<origin, code, by_line, first_line, xb, H, sel>>

\* G.get_subgraph(nodes, edges) on a graph of src/ccm/graphs.py
GetSubgraph ==
    /\ call \in GraphCalls
    /\ G.status = "ok"
    /\ \E s \in SelPairs(G) :
          /\ sel' = s
          /\ H' = get_subgraph(G, s[1], s[2])
          /\ G' = get_subgraph_self(G, s[1], s[2])
    /\ call' = "get_subgraph"
    /\ result' = IF H'.status = "ok" THEN NoResult ELSE Raises(H'.status)
    /\ UNCHANGED <<origin, code, by_line, first_line, xb>>

\* G.get_subgraph(nodes, edges) on a graph of src/src/ccm/graphs.py
GetSubgraphSrc ==
    /\ call \in GraphCallsSrc
    /\ G.status = "ok"
    /\ \E s \in SelPairs(G) :
          /\ sel' = s
          /\ H' = get_subgraph_src(G, s[1], s[2])
          /\ G' = get_subgraph_self(G, s[1], s[2])
    /\ call' = "get_subgraph_src"
    /\ result' = IF H'.status = "ok" THEN NoResult ELSE Raises(H'.status)
    /\ UNCHANGED <<origin, code, by_line, first_line, xb>>

\* XBytecodeGraph.get_source_code_graph(xbytecode_graph=G) on a graph of
\* src/ccm/graphs.py
GetSourceCodeGraph ==
    /\ call \in GraphCalls
    /\ G.status = "ok"
    /\ H' = get_source_code_graph_of(G)
    /\ G' = get_source_code_graph_arg(G)
    /\ call' = "get_source_code_graph"
    /\ result' = IF H'.status = "ok" THEN NoResult ELSE Raises(H'.status)
    /\ UNCHANGED <<origin, code, by_line, first_line, xb, sel>>

McCabe ==
    /\ call = "none"
    /\ call' = "mccabe_complexity"
    /\ G' = new_XBytecodeGraph(origin, code)
    /\ result' = mccabe_complexity(G')
    /\ xb' = G'.instr_map
    /\ UNCHANGED <<origin, code, by_line, first_line, H, sel>>

McCabeGeneralised ==
    /\ call = "none"
    /\ call' = "mccabe_generalised_complexity"
    /\ G' = new_XBytecodeGraph(origin, code)
    /\ result' = mccabe_generalised_complexity(G')
    /\ xb' = G'.instr_map
    /\ UNCHANGED <<origin, code, by_line, first_line, H, sel>>

HendersonSellers ==
    /\ call = "none"
    /\ call' = "henderson_sellers_complexity"
    /\ G' = new_XBytecodeGraph(origin, code)
    /\ result' = henderson_sellers_complexity(G')
    /\ xb' = G'.instr_map
    /\ UNCHANGED <<origin, code, by_line, first_line, H, sel>>

HendersonSellersTegarden ==
    /\ call = "none"
    /\ call' = "henderson_sellers_tegarden_complexity"
    /\ G' = new_XBytecodeGraph(origin, code)
    /\ result' = henderson_sellers_tegarden_complexity(G')
    /\ xb' = G'.instr_map
    /\ UNCHANGED <<origin, code, by_line, first_line, H, sel>>

HendersonSellersTegardenGeneralised ==
    /\ call = "none"
    /\ call' = "henderson_sellers_tegarden_generalised_complexity"
    /\ G' = new_XBytecodeGraph(origin, code)
    /\ result' = henderson_sellers_tegarden_generalised_complexity(G')
    /\ xb' = G'.instr_map
    /\ UNCHANGED <<origin, code, by_line, first_line, H, sel>>

Harrison ==
    /\ call = "none"
    /\ call' = "harrison_complexity"
    /\ G' = new_XBytecodeGraph(origin, code)
    /\ result' = harrison_complexity(G')
    /\ xb' = G'.instr_map
    /\ UNCHANGED <<origin, code, by_line, first_line, H, sel>>

Next ==
    \/ Decode
    \/ DecodeFirstLine
    \/ GetInstructionsBySourceLine
    \/ NewGraph
    \/ NewGraphSrc
    \/ NewGraphData
    \/ NewGraphDataSrc
    \/ SetSourceCodeGraph
    \/ SetNumberEntryPoints
    \/ SetNumberDecisionPoints
    \/ SetNumberBranchPoints
    \/ SetNumberExitPoints
    \/ GetSubgraph
    \/ GetSubgraphSrc
    \/ GetSourceCodeGraph
    \/ McCabe
    \/ McCabeGeneralised
    \/ HendersonSellers
    \/ HendersonSellersTegarden
    \/ HendersonSellersTegardenGeneralised
    \/ Harrison

Spec == Init /\ [][Next]_vars

---------------------------------------------------------------------------
\* Properties of the metrics

\* the units of a routine given by opcode and argument, as a byte stream
Routine(units) == Flatten(units)

\* the number of instructions of the sequence xs that carry the flag
Flagged(xs, flag) == Cardinality({k \in DOMAIN xs : xs[k][flag]})

\* C1: on a constructed graph mccabe_complexity raises the connectivity
\* error (TypeError), and returns no value, exactly when the graph has more
\* than one strongly connected component; with one component it returns
\* e - n + 2, and with several it does not return what the generalised
\* formula gives.
C1_McCabeConnectivity ==
    (call = "mccabe_complexity" /\ G.status = "ok") =>
        LET p == number_strongly_connected_components(G)
        IN  /\ (result.status = "TypeError") <=> (p > 1)
            /\ (p > 1) => (result.value = None)
            /\ (p > 1) => (result # mccabe_generalised_complexity(G))
            /\ (p = 1) =>
                  (result = Returned(number_of_edges(G) - number_of_nodes(G) + 2))

\* a routine whose graph has several components, refused by mccabe_complexity
C1_Witness ==
    /\ call = "mccabe_complexity"
    /\ G.status = "ok"
    /\ number_strongly_connected_components(G) > 1
    /\ result = Raises("TypeError")

\* C2: on every constructed graph, whatever its number p of strongly
\* connected components, mccabe_generalised_complexity returns e - n + 2p,
\* henderson_sellers_complexity returns e - n + p + 1 and
\* henderson_sellers_tegarden_complexity returns e - n + p; none raises the
\* connectivity error.
C2_GeneralisedFormulas ==
    G.status = "ok" =>
        LET n == Cardinality(G.nodes)
            e == Cardinality(G.edges)
            p == Cardinality(strongly_connected_components(G))
        IN  /\ (call = "mccabe_generalised_complexity") =>
                  (result = Returned(e - n + 2 * p))
            /\ (call = "henderson_sellers_complexity") =>
                  (result = Returned(e - n + p + 1))
            /\ (call = "henderson_sellers_tegarden_complexity") =>
                  (result = Returned(e - n + p))
            /\ (call \in {"mccabe_generalised_complexity",
                          "henderson_sellers_complexity",
                          "henderson_sellers_tegarden_complexity"}) =>
                  (result.status = "ok")

\* a graph of several components measured by henderson_sellers_complexity
C2_Witness ==
    /\ call = "henderson_sellers_complexity"
    /\ G.status = "ok"
    /\ number_strongly_connected_components(G) > 1
    /\ result.status = "ok"

\* the exit-point instructions of g whose offsets lie in the node set C
ExitPointsIn(g, C) ==
    Cardinality({k \in DOMAIN g.instr_map :
                    g.instr_map[k].is_exit_point /\ g.instr_map[k].offset \in C})

\* C3: henderson_sellers_tegarden_generalised_complexity returns
\* e - n + X + 2, where X sums over the strongly connected components C of
\* the graph the number of exit-point instructions whose offsets lie in C.
C3_PerComponentExitCount ==
    (call = "henderson_sellers_tegarden_generalised_complexity" /\ G.status = "ok") =>
        LET comps == strongly_connected_components(G)
            X == SumOver(comps, [C \in comps |-> ExitPointsIn(G, C)])
        IN  result = Returned(number_of_edges(G) - number_of_nodes(G) + X + 2)

\* def f(): sys.exit() has three components and two exit points: the measure
\* returned is e - n + 3 * 2 + 2 = 8, the per-component sum gives 4
C3_Witness ==
    /\ code = Routine(<< <<LOAD_GLOBAL, 0>>, <<LOAD_METHOD, 1>>, <<CALL_METHOD, 0>>,
                         <<POP_TOP, 0>>, <<LOAD_CONST, 0>>, <<RETURN_VALUE, 0>> >>)
    /\ call = "henderson_sellers_tegarden_generalised_complexity"
    /\ number_strongly_connected_components(G) = 3
    /\ G.number_exit_points = 2
    /\ result = Returned(8)

\* C4: the four counters of a graph built from a decoded routine are the
\* numbers of decoded instructions carrying the respective flag, and
\* harrison_complexity returns d - x + 2 for d flagged decision points and x
\* flagged exit points, whatever the connectivity of the graph.
C4_HarrisonFlagCounts ==
    (/\ call \in {"XBytecodeGraph", "harrison_complexity"}
     /\ G.status = "ok"
     /\ G.has_xbytecode) =>
        LET xs == XBytecode(code)
            d == Flagged(xs, "is_decision_point")
            x == Flagged(xs, "is_exit_point")
        IN  /\ G.number_decision_points = d
            /\ G.number_exit_points = x
            /\ G.number_entry_points = Flagged(xs, "is_entry_point")
            /\ G.number_branch_points = Flagged(xs, "is_branch_point")
            /\ (call = "harrison_complexity") => (result = Returned(d - x + 2))

\* harrison_complexity on a graph of several components that has a decision
\* point
C4_Witness ==
    /\ call = "harrison_complexity"
    /\ G.status = "ok"
    /\ number_strongly_connected_components(G) > 1
    /\ G.number_decision_points > 0
    /\ result = Returned(G.number_decision_points - G.number_exit_points + 2)

\* C5, as the specification states it: with one strongly connected component
\* henderson_sellers_tegarden_complexity is mccabe_complexity less 2 and
\* henderson_sellers_complexity is mccabe_complexity less 1.
C5_AsStated ==
    (G.status = "ok" /\ number_strongly_connected_components(G) = 1) =>
        /\ (call = "henderson_sellers_tegarden_complexity") =>
              (result = Returned(mccabe_complexity(G).value - 2))
        /\ (call = "henderson_sellers_complexity") =>
              (result = Returned(mccabe_complexity(G).value - 1))

\* C5, amended: with one strongly connected component mccabe_complexity
\* returns a value, henderson_sellers_tegarden_complexity is that value less
\* 1 and henderson_sellers_complexity is that value itself.
C5_SingleComponentRelations ==
    (G.status = "ok" /\ number_strongly_connected_components(G) = 1) =>
        /\ (call = "henderson_sellers_tegarden_complexity") =>
              /\ mccabe_complexity(G).status = "ok"
              /\ result = Returned(mccabe_complexity(G).value - 1)
        /\ (call = "henderson_sellers_complexity") =>
              /\ mccabe_complexity(G).status = "ok"
              /\ result = Returned(mccabe_complexity(G).value)

\* henderson_sellers_tegarden_complexity on a strongly connected graph
C5_Witness ==
    /\ call = "henderson_sellers_tegarden_complexity"
    /\ G.status = "ok"
    /\ number_strongly_connected_components(G) = 1
    /\ mccabe_complexity(G).status = "ok"
    /\ result.value = mccabe_complexity(G).value - 1

---------------------------------------------------------------------------
\* Properties of the graph builders

\* no branch point, no decision point, and a return as last instruction for
\* only exit point
StraightLine(xs) ==
    /\ Len(xs) >= 1
    /\ \A k \in DOMAIN xs : ~xs[k].is_branch_point /\ ~xs[k].is_decision_point
    /\ {k \in DOMAIN xs : xs[k].is_exit_point} = {Len(xs)}
    /\ xs[Len(xs)].opcode = RETURN_VALUE

\* C6: for a straight-line routine whose only exit point is the return that
\* ends it, of any length down to a single instruction, mccabe_complexity
\* returns 1, over the graph of either builder.
C6_StraightLineBaseline ==
    StraightLine(XBytecode(code)) =>
        /\ (call = "mccabe_complexity") => (result = Returned(1))
        /\ (call = "XBytecodeGraph_src") => (mccabe_complexity(G) = Returned(1))

\* def f(): return 1 measures 2: the edge of the return goes back to node 0
C6_Witness ==
    /\ code = Routine(<< <<LOAD_CONST, 6>>, <<RETURN_VALUE, 0>> >>)
    /\ call = "mccabe_complexity"
    /\ G.nodes = {0, 2}
    /\ G.edges = {<<0, 2>>, <<2, 0>>}
    /\ result = Returned(2)

\* one decision point feeding one conditional forward branch, two returns,
\* the second of them at the branch target and ending the routine
IfElse(xs) ==
    LET decisions == {k \in DOMAIN xs : xs[k].is_decision_point}
        branches == {k \in DOMAIN xs : xs[k].is_branch_point}
        exits == {k \in DOMAIN xs : xs[k].is_exit_point}
    IN  /\ Cardinality(decisions) = 1
        /\ Cardinality(branches) = 1
        /\ Cardinality(exits) = 2
        /\ Len(xs) \in exits
        /\ \A k \in exits : xs[k].opcode = RETURN_VALUE
        /\ \A k \in branches :
              /\ xs[k].opcode = POP_JUMP_IF_FALSE
              /\ k - 1 \in decisions
              /\ xs[k].arg > xs[k].offset
              /\ \E r \in exits : r > k /\ xs[k].arg = xs[r].offset + 2

\* C7: for a routine with one decision point, one conditional forward branch
\* and two return paths mccabe_complexity returns 2, over the graph of either
\* builder.
C7_IfElseMeasuresTwo ==
    IfElse(XBytecode(code)) =>
        /\ (call = "mccabe_complexity") => (result = Returned(2))
        /\ (call = "XBytecodeGraph_src") => (mccabe_complexity(G) = Returned(2))

\* compare, jump if false to the second return, return, return measures 3
C7_Witness ==
    /\ code = Routine(<< <<COMPARE_OP, 0>>, <<POP_JUMP_IF_FALSE, 6>>,
                         <<RETURN_VALUE, 0>>, <<RETURN_VALUE, 0>> >>)
    /\ call = "mccabe_complexity"
    /\ number_of_nodes(G) = 4
    /\ number_of_edges(G) = 5
    /\ result = Returned(3)

\* C8: get_subgraph called with neither a node selector nor an edge selector
\* (each absent or empty) raises the validation error (CCMException) and
\* returns no graph, in either graph module.
C8_SubgraphNeedsSelector ==
    (call \in {"get_subgraph", "get_subgraph_src"}
        /\ ~Truthy(sel[1]) /\ ~Truthy(sel[2])) =>
        /\ H = Raised("CCMException")
        /\ result = Raises("CCMException")

\* get_subgraph(nodes=[], edges=[]) refused
C8_Witness ==
    /\ call = "get_subgraph"
    /\ sel = <<Sel({}), Sel({})>>
    /\ H.status = "CCMException"
    /\ H.nodes = {}

\* C9: get_subgraph with a selector returns a graph whose instruction map
\* holds exactly the instructions of the routine whose offsets are nodes of
\* the result, and whose four counters are the numbers of instructions of
\* that restricted map carrying the respective flag.
C9_SubgraphMapRestricted ==
    (call \in {"get_subgraph", "get_subgraph_src"}
        /\ (Truthy(sel[1]) \/ Truthy(sel[2]))) =>
        /\ H.status = "ok"
        /\ H.instr_map = SelectSeq(G.instr_map, LAMBDA i : i.offset \in H.nodes)
        /\ H.number_entry_points = Flagged(H.instr_map, "is_entry_point")
        /\ H.number_decision_points = Flagged(H.instr_map, "is_decision_point")
        /\ H.number_branch_points = Flagged(H.instr_map, "is_branch_point")
        /\ H.number_exit_points = Flagged(H.instr_map, "is_exit_point")

\* get_subgraph(nodes=[0]) of src/src/ccm/graphs.py on def f(): return 1
\* ends in AttributeError
C9_Witness ==
    /\ code = Routine(<< <<LOAD_CONST, 6>>, <<RETURN_VALUE, 0>> >>)
    /\ call = "get_subgraph_src"
    /\ sel = <<Sel({0}), NoneSel>>
    /\ H = Raised("AttributeError")

\* the calls of the property setters
SetterCalls ==
    {"source_code_graph.setter", "number_entry_points.setter",
     "number_decision_points.setter", "number_branch_points.setter",
     "number_exit_points.setter"}

\* C10: in every non-empty decoded instruction sequence exactly one
\* instruction is flagged as entry point, the one at offset 0, which is the
\* lowest offset; every graph, as constructed from a decoded sequence, has
\* number_entry_points = 1.
C10_SingleEntryPoint ==
    /\ (xb # <<>>) =>
          /\ Cardinality({k \in DOMAIN xb : xb[k].is_entry_point}) = 1
          /\ \A k \in DOMAIN xb :
                xb[k].is_entry_point <=>
                    (xb[k].offset = 0 /\ \A j \in DOMAIN xb : xb[k].offset <= xb[j].offset)
    /\ (G.status = "ok" /\ G.has_xbytecode /\ call \notin SetterCalls)
          => (G.number_entry_points = 1)

\* a decoded routine of three instructions or more whose graph is built
C10_Witness ==
    /\ call = "XBytecodeGraph_src"
    /\ G.status = "ok"
    /\ Len(xb) >= 3
    /\ xb[1].is_entry_point
    /\ G.number_entry_points = 1

\* the offsets of the instructions of a decoded sequence
Offsets(xs) == {xs[k].offset : k \in DOMAIN xs}

\* the graph-building calls of either module, after which G is the graph
\* built and xb its instruction map
BuilderCalls == {"XBytecodeGraph", "XBytecodeGraph_src"}

\* C11: in every built graph the sink node that receives the exit edges is
\* the offset of no decoded instruction, so that no exit edge points back
\* into the routine.
C11_SinkIsNoInstruction ==
    (call \in BuilderCalls /\ G.status = "ok") =>
        /\ sink \notin Offsets(xb)
        /\ \A k \in DOMAIN xb :
              xb[k].is_exit_point =>
                  \E e \in G.edges : e[1] = xb[k].offset /\ e[2] \notin Offsets(xb)

\* def f(): return 1: the exit edge of the return at offset 2 ends on node 0,
\* the offset of the entry instruction
C11_Witness ==
    /\ code = Routine(<< <<LOAD_CONST, 6>>, <<RETURN_VALUE, 0>> >>)
    /\ call = "XBytecodeGraph_src"
    /\ xb[1].offset = 0 /\ xb[1].is_entry_point
    /\ xb[2].is_exit_point
    /\ <<2, sink>> \in G.edges
    /\ sink = xb[1].offset

\* C12: the node set of a built graph is the set of all decoded instruction
\* offsets plus the sink: every decoded instruction is a node, also one that
\* follows an exit and the last one, and every endpoint of every edge is the
\* sink or the offset of a decoded instruction.
C12_NodesAreOffsetsAndSink ==
    (call \in BuilderCalls /\ G.status = "ok") =>
        /\ G.nodes = Offsets(xb) \cup {sink}
        /\ \A e \in G.edges :
              /\ e[1] \in Offsets(xb) \cup {sink}
              /\ e[2] \in Offsets(xb) \cup {sink}

\* RETURN_VALUE; POP_TOP: the instruction at offset 2 is on no edge and is
\* no node of the graph
C12_Witness ==
    /\ code = Routine(<< <<RETURN_VALUE, 0>>, <<POP_TOP, 0>> >>)
    /\ call = "XBytecodeGraph"
    /\ G.status = "ok"
    /\ Offsets(xb) = {0, 2}
    /\ G.edges = {<<0, sink>>}
    /\ G.nodes = {0}

---------------------------------------------------------------------------
\* Properties of the decoder

\* the objects that are no routine, and the source texts that do not parse
Undecodable ==
    {"unsupported", "falsy", "unparsable", "null_byte_string", "too_nested_string"}

\* C13: decoding an input that cannot be reduced to a valid instruction
\* stream (an unsupported object, a source text that does not parse, a
\* byte stream cut to an odd length) fails with CCMError and with no other
\* kind of error.
C13_DecodeErrorKind ==
    (call = "XBytecode"
        /\ (origin \in Undecodable \/ Len(code) % 2 = 1)) =>
        result = Raises("CCMError")

\* the one-byte stream LOAD_CONST: decoding ends in IndexError
C13_Witness ==
    /\ origin = "code"
    /\ code = <<LOAD_CONST>>
    /\ call = "XBytecode"
    /\ result = Raises("IndexError")


(***************************************************************************)
(* Properties of the source code graph                                     *)
(***************************************************************************)

\* the source line of the instruction at offset n, read from the decoded
\* instructions
LineOf(xs, n) == xs[CHOOSE k \in DOMAIN xs : xs[k].offset = n].starts_line

\* C15: the source code graph is the quotient of the control flow graph by
\* source line: its nodes are exactly the source lines of the graph's nodes,
\* and two different lines are joined exactly when some node of the first
\* has an edge to some node of the second.
C15_SourceGraphIsQuotient ==
    (call \in BuilderCalls /\ G.status = "ok") =>
        /\ G.source_code_graph.nodes = {LineOf(xb, n) : n \in G.nodes}
        /\ \A l1, l2 \in G.source_code_graph.nodes :
              l1 # l2 =>
                  (<<l1, l2>> \in G.source_code_graph.edges
                      <=> \E e \in G.edges :
                             LineOf(xb, e[1]) = l1 /\ LineOf(xb, e[2]) = l2)

\* a graph whose first line holds two nodes and whose lines are joined by
\* one edge only
C15_Witness ==
    /\ call \in BuilderCalls
    /\ G.status = "ok"
    /\ G.nodes = {0, 2, 4, 6}
    /\ LineOf(xb, 0) = LineOf(xb, 2)
    /\ LineOf(xb, 4) # LineOf(xb, 2)
    /\ <<2, 4>> \in G.edges
    /\ <<0, 4>> \notin G.edges
    /\ <<LineOf(xb, 2), LineOf(xb, 4)>> \in G.source_code_graph.edges



\* the node set, edge set, instruction map and four counts of two graphs agree
SameGraph(g1, g2) ==
    /\ g1.nodes = g2.nodes
    /\ g1.edges = g2.edges
    /\ g1.instr_map = g2.instr_map
    /\ g1.number_entry_points = g2.number_entry_points
    /\ g1.number_decision_points = g2.number_decision_points
    /\ g1.number_branch_points = g2.number_branch_points
    /\ g1.number_exit_points = g2.number_exit_points

\* C16: get_subgraph and get_source_code_graph leave the graph they are
\* applied to as it was: its nodes, edges, instruction map and four counts
\* are the same after the call as before it.
C16_CallsLeaveGraphUnchanged ==
    [][(call' \in {"get_subgraph", "get_subgraph_src", "get_source_code_graph"})
          => SameGraph(G', G)]_vars

\* a call that returned a proper subgraph
C16_Witness ==
    /\ call = "get_subgraph"
    /\ G.status = "ok"
    /\ H.status = "ok"
    /\ H.nodes # G.nodes
    /\ H.nodes # {}



(***************************************************************************)
(* Properties of the edges                                                 *)
(***************************************************************************)

\* C17: for consecutive instructions A, B the graph has the edge A -> B when
\* A is not an exit point, whatever B is, and has no edge A -> B when A is an
\* exit point.
C17_FallThroughEdges ==
    (call \in BuilderCalls /\ G.status = "ok") =>
        \A j, k \in DOMAIN xb :
            xb[k].offset = xb[j].offset + 2 =>
                /\ ~xb[j].is_exit_point => <<xb[j].offset, xb[k].offset>> \in G.edges
                /\ xb[j].is_exit_point => <<xb[j].offset, xb[k].offset>> \notin G.edges

\* a graph of src/src/ccm/graphs.py where a branch point follows an
\* instruction that is neither a decision point nor an exit point, and the
\* edge between them is missing
C17_Witness ==
    /\ call = "XBytecodeGraph_src"
    /\ G.status = "ok"
    /\ \E j, k \in DOMAIN xb :
          /\ xb[k].offset = xb[j].offset + 2
          /\ ~xb[j].is_exit_point
          /\ ~xb[j].is_decision_point
          /\ xb[k].is_branch_point
          /\ <<xb[j].offset, xb[k].offset>> \notin G.edges



\* C18: every branch point has the edge to its resolved target, whether the
\* jump is relative or absolute, forward or backward, as well as the edge to
\* the instruction after it; and an instruction that is no branch point has
\* no edge to the instruction at the offset its raw argument names, unless
\* that is the next instruction or the edge is its edge to the sink.
C18_BranchEdges ==
    (call \in BuilderCalls /\ G.status = "ok") =>
        \A j \in DOMAIN xb :
            /\ xb[j].is_branch_point =>
                  /\ <<xb[j].offset, xb[j].argval>> \in G.edges
                  /\ xb[j].offset + 2 \in Offsets(xb)
                        => <<xb[j].offset, xb[j].offset + 2>> \in G.edges
            /\ (/\ ~xb[j].is_branch_point
                /\ xb[j].arg \in Offsets(xb)
                /\ xb[j].arg # xb[j].offset + 2
                /\ ~(xb[j].is_exit_point /\ xb[j].arg = sink))
                  => <<xb[j].offset, xb[j].arg>> \notin G.edges

\* a graph of src/ccm/graphs.py where a backward jump has no edge to its
\* target
C18_Witness ==
    /\ call = "XBytecodeGraph"
    /\ G.status = "ok"
    /\ \E j \in DOMAIN xb :
          /\ xb[j].opcode = JUMP_ABSOLUTE
          /\ xb[j].argval < xb[j].offset
          /\ <<xb[j].offset, xb[j].argval>> \notin G.edges


\* C19: a graph is built for every instruction sequence, also for a single
\* instruction; every exit point has an edge to the sink, and the edges into
\* the sink are as many as the graph's number_exit_points.
C19_ExitEdges ==
    call \in BuilderCalls =>
        /\ (origin = "code" /\ Len(code) = 2) => G.status = "ok"
        /\ G.status = "ok" =>
              /\ \A k \in DOMAIN xb :
                    xb[k].is_exit_point => <<xb[k].offset, sink>> \in G.edges
              /\ Cardinality({e \in G.edges : e[2] = sink}) = G.number_exit_points

\* the routine that is a single return, handed to src/ccm/graphs.py: no graph
C19_Witness ==
    /\ call = "XBytecodeGraph"
    /\ code = <<RETURN_VALUE, 0>>
    /\ G.status = "CCMException"



(***************************************************************************)
(* Properties of the instruction flags                                     *)
(***************************************************************************)

\* whether instruction j of xs is a jump whose resolved target is offset o
JumpsTo(xs, j, o) ==
    /\ xs[j].opcode \in hasjrel \cup hasjabs
    /\ xs[j].argval = o

\* C20 as stated: an instruction is a jump target exactly when some other
\* instruction is a jump whose resolved target is its offset.
C20_AsStated ==
    \A k \in DOMAIN xb :
        xb[k].is_jump_target
            <=> \E j \in DOMAIN xb : j # k /\ JumpsTo(xb, j, xb[k].offset)

\* C20: an instruction is a jump target exactly when some instruction of the
\* stream, itself included, is a jump whose resolved target (offset + 2 + arg
\* for a relative jump, arg for an absolute one, the extended-arg prefix
\* included) is its offset; the jump may come later than the target.
C20_JumpTargetFlag ==
    \A k \in DOMAIN xb :
        xb[k].is_jump_target
            <=> \E j \in DOMAIN xb : JumpsTo(xb, j, xb[k].offset)

\* a decoded stream where a later jump marks an earlier instruction
C20_Witness ==
    /\ call = "XBytecode"
    /\ \E j, k \in DOMAIN xb :
          /\ j > k
          /\ JumpsTo(xb, j, xb[k].offset)
          /\ xb[k].is_jump_target



\* C21: an instruction is a decision point exactly when it is a comparison,
\* or it is a call and the instruction right after it is a jump; the last
\* instruction of a stream is a decision point only if it is a comparison,
\* and a stream that ends in a call decodes without an error.
C21_DecisionPointFlag ==
    /\ \A k \in DOMAIN xb :
          xb[k].is_decision_point
              <=> \/ xb[k].opcode \in hascompare
                  \/ /\ xb[k].opcode \in CALL_OPS
                     /\ k < Len(xb)
                     /\ xb[k + 1].opcode \in hasjabs \cup hasjrel
    /\ (call = "XBytecode" /\ code \in CallTailCodes) =>
          /\ result = NoResult
          /\ Len(xb) * 2 = Len(code)
          /\ ~xb[Len(xb)].is_decision_point

\* a decoded stream with a call before a jump, flagged, and a call at its
\* end, not flagged
C21_Witness ==
    /\ call = "XBytecode"
    /\ result = NoResult
    /\ Len(xb) >= 3
    /\ xb[Len(xb)].opcode = CALL_FUNCTION
    /\ ~xb[Len(xb)].is_decision_point
    /\ \E k \in DOMAIN xb :
          /\ xb[k].opcode = CALL_FUNCTION
          /\ xb[k + 1].opcode = POP_JUMP_IF_FALSE
          /\ xb[k].is_decision_point



\* instruction k of xs loads the global named sys
LoadsSys(xs, k) ==
    xs[k].opcode = LOAD_GLOBAL /\ _get_name_info(xs[k].arg) = "sys"

\* instruction k of xs loads the method named exit
LoadsExit(xs, k) ==
    xs[k].opcode = LOAD_METHOD /\ _get_name_info(xs[k].arg) = "exit"

\* instruction k of xs is the pop that completes sys.exit() or sys.exit(c)
CompletesExitCall(xs, k) ==
    /\ xs[k].opcode = POP_TOP
    /\ \/ /\ k >= 4
          /\ LoadsSys(xs, k - 3)
          /\ LoadsExit(xs, k - 2)
          /\ xs[k - 1].opcode \in CALL_OPS
       \/ /\ k >= 5
          /\ LoadsSys(xs, k - 4)
          /\ LoadsExit(xs, k - 3)
          /\ xs[k - 2].opcode = LOAD_CONST
          /\ xs[k - 1].opcode \in CALL_OPS

\* C22: an instruction is an exit point exactly when it is a return or a
\* raise, or it is the pop that completes a call of sys.exit; the call inside
\* the pattern and every other instruction are not exit points.
C22_ExitPointFlag ==
    \A k \in DOMAIN xb :
        xb[k].is_exit_point
            <=> \/ xb[k].opcode \in {RETURN_VALUE, RAISE_VARARGS}
                \/ CompletesExitCall(xb, k)

\* a decoded stream where the call of sys.exit() is itself flagged as an exit
\* point, and so is the pop after it
C22_Witness ==
    /\ call = "XBytecode"
    /\ \E k \in DOMAIN xb :
          /\ k >= 3
          /\ k < Len(xb)
          /\ LoadsSys(xb, k - 2)
          /\ LoadsExit(xb, k - 1)
          /\ xb[k].opcode = CALL_METHOD
          /\ xb[k].is_exit_point
          /\ CompletesExitCall(xb, k + 1)
          /\ xb[k + 1].is_exit_point



\* the entries of XBytecode(x).instr_map that the integer n finds as a key
EntriesAt(xs, n) ==
    {k \in DOMAIN xs : PyEqTupleInt(instr_map_key_src(xs[k]), n)}

\* C23: a byte stream of even length 2k decodes to k instructions with the
\* offsets 0, 2, ..., 2(k-1) in that order, the last unit included, and the
\* instruction map holds them in that order, each under its offset as key.
C23_OffsetsAndMapKeys ==
    (call = "XBytecode" /\ origin = "code" /\ Len(code) % 2 = 0) =>
        /\ result = NoResult
        /\ Len(xb) * 2 = Len(code)
        /\ \A k \in DOMAIN xb :
              /\ xb[k].offset = 2 * (k - 1)
              /\ EntriesAt(xb, xb[k].offset) = {k}

\* a decoded stream of three instructions at offsets 0, 2, 4 whose map keys
\* are the pairs of line and offset
C23_Witness ==
    /\ call = "XBytecode"
    /\ result = NoResult
    /\ Len(code) = 6
    /\ Len(xb) = 3
    /\ \A k \in DOMAIN xb :
          /\ xb[k].offset = 2 * (k - 1)
          /\ instr_map_key_src(xb[k]) = <<xb[k].starts_line, 2 * (k - 1)>>
          /\ EntriesAt(xb, xb[k].offset) = {}



(***************************************************************************)
(* Properties of the operand unpacking                                     *)
(***************************************************************************)

RECURSIVE Pending(_, _)
\* the high-order value pending before unit k of the byte stream c: what the
\* run of extend-argument units right before unit k has accumulated
Pending(c, k) ==
    IF k >= 2 /\ c[2 * (k - 1) - 1] = EXTENDED_ARG
    THEN (Pending(c, k - 1) + c[2 * (k - 1)]) * 256
    ELSE 0

\* C24: the argument of an operation that takes one is its own byte plus the
\* value accumulated by the run of extend-argument instructions right before
\* it; an operation that is not right after such a run gets its byte alone,
\* also when an operation without argument stands between the run and it.
C24_ExtendedArgConsumedByNext ==
    (call = "XBytecode" /\ result = NoResult) =>
        \A k \in DOMAIN xb :
            (xb[k].opcode >= HAVE_ARGUMENT /\ xb[k].opcode # EXTENDED_ARG) =>
                xb[k].arg = Pending(code, k) + code[2 * k]

\* a decoded stream where the value of an extend-argument instruction passes
\* over an operation without argument into the call after it
C24_Witness ==
    /\ call = "XBytecode"
    /\ result = NoResult
    /\ Len(xb) >= 3
    /\ xb[1].opcode = EXTENDED_ARG
    /\ xb[2].opcode = POP_TOP
    /\ xb[3].opcode = CALL_FUNCTION
    /\ code[6] = 0
    /\ xb[3].arg = 256



(***************************************************************************)
(* Properties of the source lines                                          *)
(***************************************************************************)

\* the line of the latest entry of the line-start table ls at or before offset
LatestLine(ls, offset) ==
    ls[CHOOSE k \in DOMAIN ls :
          /\ ls[k][1] <= offset
          /\ \A j \in DOMAIN ls : ls[j][1] <= offset => ls[j][1] <= ls[k][1]][2]

\* C25 for one decoded instruction: its line is the line of the latest table
\* entry at or before it, plus the line offset
LineAssigned(ls, instr, line_offset) ==
    instr.starts_line = LatestLine(ls, instr.offset) + line_offset

\* C25: every decoded instruction carries the line of the latest line-start
\* entry at or before its offset, plus first_line - co_firstlineno when a
\* first line is given, whatever that line offset is.
C25_RunningLine ==
    (call \in {"XBytecode", "XBytecode_first_line"} /\ result = NoResult) =>
        \A k \in DOMAIN xb :
            LineAssigned(findlinestarts(code), xb[k], first_line - co_firstlineno)

\* a stream decoded with first_line two lines down: the first instruction is
\* moved by two lines, the second one, on the same source line, by four
C25_Witness ==
    /\ call = "XBytecode_first_line"
    /\ first_line = co_firstlineno + 2
    /\ Len(xb) >= 2
    /\ xb[1].starts_line = co_firstlineno + 2
    /\ xb[2].starts_line = co_firstlineno + 4
    /\ LatestLine(findlinestarts(code), xb[2].offset) = co_firstlineno



\* C26: every node of the source code graph carries as src_line the text of
\* the source line its label names, also when an empty line comes before it.
C26_NodeCarriesItsLine ==
    (call \in BuilderCalls /\ G.status = "ok") =>
        \A n \in G.source_code_graph.nodes :
            G.source_code_graph.src_line[n] = n

\* a graph with a node for line 4, after the empty line 3, that carries no
\* text, the text of line 4 being numbered 3
C26_Witness ==
    /\ call \in BuilderCalls
    /\ G.status = "ok"
    /\ 3 \in BlankLines
    /\ 4 \in G.source_code_graph.nodes
    /\ G.source_code_graph.src_line[4] = None
    /\ src_map(getsource_lines(code))[3] = 4



(***************************************************************************)
(* Properties of the subgraph by edges                                     *)
(***************************************************************************)

\* C27: get_subgraph called with an edge selector only returns a graph whose
\* nodes are endpoints of the selected edges and whose edges are selected
\* edges; an edge of the parent between two endpoints that was not selected
\* is absent.
C27_EdgeSelectorKeepsOnlyItsEdges ==
    (/\ call = "get_subgraph"
     /\ H.status = "ok"
     /\ ~Truthy(sel[1])
     /\ Truthy(sel[2])) =>
        /\ H.nodes \subseteq EdgeNodes(sel[2].items)
        /\ H.edges \subseteq sel[2].items

\* the edge (0, 2) alone was selected and the returned graph also has the
\* parent's edge (2, 0)
C27_Witness ==
    /\ call = "get_subgraph"
    /\ H.status = "ok"
    /\ sel = <<NoneSel, Sel({<<0, 2>>})>>
    /\ H.nodes = {0, 2}
    /\ <<2, 0>> \in G.edges
    /\ <<2, 0>> \in H.edges



(***************************************************************************)
(* Properties of the look-back window                                      *)
(***************************************************************************)

\* a call of sys.exit of n instructions (4 without, 5 with a constant
\* argument) starts at instruction s of xs
ExitCallAt(xs, s, n) ==
    /\ s + n - 1 <= Len(xs)
    /\ CompletesExitCall(xs, s + n - 1)
    /\ LoadsSys(xs, s)

\* the exit-point flags of instructions s .. s+n-1 of xs
ExitFlags(xs, s, n) == [i \in 1..n |-> xs[s + i - 1].is_exit_point]

\* C28: the exit-point flags of the instructions of a call of sys.exit are
\* those the same instructions get when decoded on their own from offset 0,
\* however many instructions come before them, and exactly one of them is
\* flagged.
C28_ExitFlagsPositionIndependent ==
    (call = "XBytecode" /\ result = NoResult) =>
        \A s \in DOMAIN xb : \A n \in {4, 5} :
            ExitCallAt(xb, s, n) =>
                /\ ExitFlags(xb, s, n)
                      = ExitFlags(XBytecode(SubSeq(code, 2 * s - 1, 2 * (s + n - 1))), 1, n)
                /\ Cardinality({i \in 1..n : ExitFlags(xb, s, n)[i]}) = 1

\* sys.exit() after one instruction: the call and the pop are both flagged,
\* while on its own only the pop is
C28_Witness ==
    /\ call = "XBytecode"
    /\ result = NoResult
    /\ ExitCallAt(xb, 2, 4)
    /\ ExitFlags(xb, 2, 4) = <<FALSE, FALSE, TRUE, TRUE>>
    /\ ExitFlags(XBytecode(SubSeq(code, 3, 10)), 1, 4) = <<FALSE, FALSE, FALSE, TRUE>>



(***************************************************************************)
(* Shape of the graph of the pairwise get_edges                            *)
(***************************************************************************)

\* the offsets of the exit points among the instructions xs
ExitOffsets(xs) == {xs[k].offset : k \in {j \in DOMAIN xs : xs[j].is_exit_point}}

\* C29: in a graph built by the pairwise get_edges every edge that does not
\* end in node 0 goes to a strictly higher offset, and the graph is one
\* strongly connected component exactly when every node is reachable from
\* node 0 and reaches an exit point.
C29_CyclesPassThroughNodeZero ==
    (call = "XBytecodeGraph" /\ G.status = "ok" /\ G.has_xbytecode) =>
        /\ \A e \in G.edges : e[2] # 0 => e[1] < e[2]
        /\ (number_strongly_connected_components(G) = 1)
              <=> /\ G.nodes \subseteq ReachFrom(G.edges, {0})
                  /\ \A n \in G.nodes :
                        ReachFrom(G.edges, {n}) \cap ExitOffsets(xb) # {}

\* a strongly connected graph of three or more nodes with an edge that skips
\* an instruction and an exit point
C29_Witness ==
    /\ call = "XBytecodeGraph"
    /\ G.status = "ok"
    /\ number_strongly_connected_components(G) = 1
    /\ Cardinality(G.nodes) >= 3
    /\ \E e \in G.edges : e[2] > e[1] + 2
    /\ ExitOffsets(xb) # {}

(***************************************************************************)
(* Instructions by source line                                             *)
(***************************************************************************)

\* the lines whose entry of by_line holds the instruction x
EntriesHolding(x) ==
    {l \in DOMAIN by_line : \E j \in DOMAIN by_line[l] : by_line[l][j] = x}

\* C30: after get_bytecode_instructions_by_source_line every instruction of
\* the bytecode is in the entry of its own starts_line and in no other entry,
\* also when its line recurs after instructions of another line.
C30_PartitionBySourceLine ==
    (call = "get_bytecode_instructions_by_source_line") =>
        \A k \in DOMAIN xb : EntriesHolding(xb[k]) = {xb[k].starts_line}

\* a map made from a bytecode whose line 2 recurs after an instruction of
\* line 4: the entry of line 2 holds the later instruction of line 2 and
\* no entry holds the earlier one
C30_Witness ==
    /\ call = "get_bytecode_instructions_by_source_line"
    /\ \E i, j, k \in DOMAIN xb :
          /\ i < j /\ j < k
          /\ xb[i].starts_line = 2
          /\ xb[j].starts_line = 4
          /\ xb[k].starts_line = 2
          /\ EntriesHolding(xb[k]) = {2}
          /\ EntriesHolding(xb[i]) = {}

====
